---- MODULE Spec2Model ----
(***************************************************************************)
(* Surf Ceylon: the suitability scorer (calculateSuitability), the         *)
(* /api/spots gateway handler that scores and ranks the spots returned by  *)
(* the prediction process (and its pass-through variant), and the mobile   *)
(* app's screens that fetch the ranked list for the user's preferences.    *)
(*                                                                         *)
(* Units: lengths are in tenths of a metre (0.5 m = 5), so that every      *)
(* threshold of the code is an integer.  Wave periods are in seconds, wind *)
(* speeds in kph and wind directions in degrees.                           *)
(***************************************************************************)
EXTENDS Integers, Sequences, FiniteSets, TLC

(***************************************************************************)
(* Query-string values.  req.query holds, for each key, either nothing     *)
(* (undefined) or the text the client sent.  A text is a sequence of       *)
(* characters.                                                             *)
(***************************************************************************)
Undefined == [defined |-> FALSE, text |-> <<>>]

Text(s) == [defined |-> TRUE, text |-> s]

Digits == {"0", "1", "2", "3", "4", "5", "6", "7", "8", "9"}

DigitVal(c) ==
    CASE c = "0" -> 0 [] c = "1" -> 1 [] c = "2" -> 2 [] c = "3" -> 3
      [] c = "4" -> 4 [] c = "5" -> 5 [] c = "6" -> 6 [] c = "7" -> 7
      [] c = "8" -> 8 [] c = "9" -> 9

\* A JavaScript number that is either NaN or a finite value (in tenths).
NaN == [nan |-> TRUE, val |-> 0]

Num(v) == [nan |-> FALSE, val |-> v]

\* Number of leading white-space characters of s from position i.
RECURSIVE SkipWhite(_, _)
SkipWhite(s, i) ==
    IF i <= Len(s) /\ s[i] = " " THEN SkipWhite(s, i + 1) ELSE i

\* Position after the run of decimal digits of s that starts at position i.
RECURSIVE DigitsEnd(_, _)
DigitsEnd(s, i) ==
    IF i <= Len(s) /\ s[i] \in Digits THEN DigitsEnd(s, i + 1) ELSE i

\* Value of the decimal digits s[i..j-1] (0 for an empty run).
RECURSIVE DigitsValue(_, _, _)
DigitsValue(s, i, j) ==
    IF i >= j THEN 0 ELSE DigitsValue(s, i, j - 1) * 10 + DigitVal(s[j - 1])

(***************************************************************************)
(* parseFloat: convert the argument to a string, skip leading white space, *)
(* read the longest prefix that is a decimal literal (optional sign,       *)
(* digits, optional fraction) and return its value, or NaN when there is   *)
(* no such prefix.  undefined converts to the string "undefined", which    *)
(* has no numeric prefix.  The value is returned in tenths; the texts of   *)
(* RawHeights carry at most one fractional digit, so the first fractional  *)
(* digit is the whole fraction.                                            *)
(***************************************************************************)
parseFloat(v) ==
    IF ~v.defined THEN NaN
    ELSE
      LET s        == v.text
          a        == SkipWhite(s, 1)
          signed   == a <= Len(s) /\ s[a] \in {"-", "+"}
          negative == signed /\ s[a] = "-"
          b        == IF signed THEN a + 1 ELSE a
          c        == DigitsEnd(s, b)
          hasPoint == c <= Len(s) /\ s[c] = "."
          d        == IF hasPoint THEN DigitsEnd(s, c + 1) ELSE c
          hasFrac  == hasPoint /\ d > c + 1
          mag      == DigitsValue(s, b, c) * 10
                        + (IF hasFrac THEN DigitVal(s[c + 1]) ELSE 0)
      IN  IF c = b /\ ~hasFrac THEN NaN
          ELSE Num(IF negative THEN 0 - mag ELSE mag)

\* x || dflt for a number x: NaN and 0 are falsy.
OrDefault(x, dflt) == IF x.nan \/ x.val = 0 THEN dflt ELSE x.val

DefaultMinWaveHeight == 5

DefaultMaxWaveHeight == 25

\* const minWaveHeight = parseFloat(preferences.minWaveHeight) || 0.5;
minWaveHeightOf(preferences) ==
    OrDefault(parseFloat(preferences.minWaveHeight), DefaultMinWaveHeight)

\* const maxWaveHeight = parseFloat(preferences.maxWaveHeight) || 2.5;
maxWaveHeightOf(preferences) ==
    OrDefault(parseFloat(preferences.maxWaveHeight), DefaultMaxWaveHeight)

(***************************************************************************)
(* The scoring rules of calculateSuitability, one operator per rule, each  *)
(* giving the number of points the rule deducts.                           *)
(***************************************************************************)

\* Mutant of the skill rule: the Beginner's upper threshold made inclusive.
SkillDeductionInclusive(skillLevel, waveHeight) ==
    IF skillLevel = "Beginner"
      THEN (IF waveHeight >= 15 THEN 60
            ELSE IF waveHeight > 10 THEN 30 ELSE 0)
    ELSE IF skillLevel = "Intermediate"
      THEN (IF waveHeight < 8 THEN 20 ELSE 0)
           + (IF waveHeight > 25 THEN 40 ELSE 0)
    ELSE IF skillLevel = "Advanced"
      THEN (IF waveHeight < 15 THEN 30 ELSE 0)
    ELSE 0

\* Rule: wave height vs. skill level.
SkillDeduction(skillLevel, waveHeight) ==
    IF skillLevel = "Beginner"
      THEN (IF waveHeight > 15 THEN 60
            ELSE IF waveHeight > 10 THEN 30 ELSE 0)
    ELSE IF skillLevel = "Intermediate"
      THEN (IF waveHeight < 8 THEN 20 ELSE 0)
           + (IF waveHeight > 25 THEN 40 ELSE 0)
    ELSE IF skillLevel = "Advanced"
      THEN (IF waveHeight < 15 THEN 30 ELSE 0)
    ELSE 0

\* Rule: wave height vs. the user's explicit range.
RangeDeduction(waveHeight, minWaveHeight, maxWaveHeight) ==
    IF waveHeight < minWaveHeight \/ waveHeight > maxWaveHeight
      THEN 25 ELSE 0

\* Rule: wave period vs. board type.
PeriodDeduction(boardType, wavePeriod) ==
    (IF boardType = "Shortboard" /\ wavePeriod < 9 THEN 20 ELSE 0)
    + (IF boardType # "Shortboard" /\ wavePeriod > 12 THEN 15 ELSE 0)

\* Mutant of the wind rule: the middle band closed above at 25 exclusive,
\* which leaves a wind speed of exactly 25 without deduction.
WindDeductionWithGap(windSpeed) ==
    IF windSpeed > 25 THEN 50
    ELSE IF windSpeed > 15 /\ windSpeed < 25 THEN 25 ELSE 0

\* Rule: wind speed.
WindDeduction(windSpeed) ==
    IF windSpeed > 25 THEN 50
    ELSE IF windSpeed > 15 THEN 25 ELSE 0

\* spotRegion === 'East Coast' && windDirection > 240 && windDirection < 300
isOffshoreForEastCoast(spotRegion, windDirection) ==
    spotRegion = "East Coast" /\ windDirection > 240 /\ windDirection < 300

\* spotRegion === 'South Coast' && windDirection > 330 || windDirection < 30
\* (&& binds tighter than ||)
isOffshoreForSouthCoast(spotRegion, windDirection) ==
    (spotRegion = "South Coast" /\ windDirection > 330) \/ windDirection < 30

\* Rule: onshore / cross-shore wind.
OffshoreDeduction(spotRegion, windDirection) ==
    IF ~isOffshoreForEastCoast(spotRegion, windDirection)
       /\ ~isOffshoreForSouthCoast(spotRegion, windDirection)
      THEN 30 ELSE 0

\* Rule: tide preference.
TideDeduction(tidePreference, tide) ==
    IF tidePreference # "Any" /\ tide.status # tidePreference THEN 15 ELSE 0

\* Mutant of the month computation: getMonth() used without the + 1.
currentMonthZeroBased(date) == date.monthIndex

\* Mutant of the month computation: getDate() (the day of the month) used
\* in place of getMonth().
currentMonthFromDate(date) == date.day + 1

\* new Date().getMonth() + 1; getMonth() is 0 for January.
currentMonthOf(date) == date.monthIndex + 1

isEastCoastSeason(currentMonth) == currentMonth >= 4 /\ currentMonth <= 10

\* Rule: monsoon season.
SeasonDeduction(spotRegion, date) ==
    (IF spotRegion = "East Coast" /\ ~isEastCoastSeason(currentMonthOf(date))
       THEN 60 ELSE 0)
    + (IF spotRegion = "South Coast" /\ isEastCoastSeason(currentMonthOf(date))
         THEN 60 ELSE 0)

Max(a, b) == IF a >= b THEN a ELSE b

Min(a, b) == IF a <= b THEN a ELSE b

\* Mutant of the final clamp: the floor at 0 left out.
ClampWithoutFloor(score) == Min(100, score)

\* Math.max(0, Math.min(100, score))
Clamp(score) == Max(0, Min(100, score))

\* Mutant of the rule sequence: the tide rule chained to the wind rule with
\* `else if`, so that it is skipped whenever the wind rule fired.
RawScoreTideElseIf(predictions, preferences, spotRegion, date) ==
    100 - SkillDeduction(preferences.skillLevel, predictions.waveHeight)
        - RangeDeduction(predictions.waveHeight, minWaveHeightOf(preferences),
                         maxWaveHeightOf(preferences))
        - PeriodDeduction(preferences.boardType, predictions.wavePeriod)
        - WindDeduction(predictions.windSpeed)
        - OffshoreDeduction(spotRegion, predictions.windDirection)
        - (IF WindDeduction(predictions.windSpeed) > 0 THEN 0
           ELSE TideDeduction(preferences.tidePreference, predictions.tide))
        - SeasonDeduction(spotRegion, date)

(***************************************************************************)
(* The running score of calculateSuitability just before the final clamp:  *)
(* `let score = 100` followed by the `score -= ...` statements in order.   *)
(* date is the value of new Date() at the call.                            *)
(***************************************************************************)
RawScore(predictions, preferences, spotRegion, date) ==
    LET skillLevel     == preferences.skillLevel
        boardType      == preferences.boardType
        tidePreference == preferences.tidePreference
        minWaveHeight  == minWaveHeightOf(preferences)
        maxWaveHeight  == maxWaveHeightOf(preferences)
        waveHeight     == predictions.waveHeight
        wavePeriod     == predictions.wavePeriod
        windSpeed      == predictions.windSpeed
        windDirection  == predictions.windDirection
        tide           == predictions.tide
        score0 == 100
        score1 == score0 - SkillDeduction(skillLevel, waveHeight)
        score2 == score1 - RangeDeduction(waveHeight, minWaveHeight, maxWaveHeight)
        score3 == score2 - PeriodDeduction(boardType, wavePeriod)
        score4 == score3 - WindDeduction(windSpeed)
        score5 == score4 - OffshoreDeduction(spotRegion, windDirection)
        score6 == score5 - TideDeduction(tidePreference, tide)
        score7 == score6 - SeasonDeduction(spotRegion, date)
    IN  score7

calculateSuitability(predictions, preferences, spotRegion, date) ==
    Clamp(RawScore(predictions, preferences, spotRegion, date))

(***************************************************************************)
(* Input vocabularies.                                                     *)
(***************************************************************************)
SkillLevels == {"Beginner", "Intermediate", "Advanced"}

TidePreferences == {"Any", "High", "Mid", "Low"}

BoardTypes == {"Shortboard", "Longboard", "Soft-top"}

TideStatuses == {"High", "Mid", "Low"}

Regions == {"East Coast", "South Coast"}

MonthIndexes == 0 .. 11

\* Wave heights around every threshold of the rules (0.8, 1.0, 1.5, 2.5 m)
\* and of the default range (0.5 .. 2.5 m).
WaveHeights == {3, 5, 7, 8, 10, 11, 15, 16, 20, 25, 26}

WavePeriods == {8, 9, 10, 12, 13}

WindSpeeds == {0, 10, 15, 16, 20, 25, 26, 30}

WindDirections == {0, 10, 29, 30, 100, 180, 240, 241, 270, 299, 300, 330, 331, 350, 359}

\* Texts a client may send for minWaveHeight / maxWaveHeight.
RawHeights ==
    { Undefined,
      Text(<<"a", "b", "c">>),
      Text(<<>>),
      Text(<<"-", "1">>),
      Text(<<"0">>),
      Text(<<"0", ".", "5">>),
      Text(<<"1">>),
      Text(<<" ", "1", ".", "5">>),
      Text(<<"2", ".", "5">>),
      Text(<<"3", "m">>) }

(***************************************************************************)
(* The inputs held in the state: a coarser grid than the vocabularies      *)
(* above, with one value on each side of every threshold.  The properties  *)
(* vary one argument of the call in the state over its whole vocabulary.   *)
(***************************************************************************)
StateWaveHeights == {3, 15, 20, 26}

StateWavePeriods == {8, 10, 13}

StateWindSpeeds == {10, 30}

StateWindDirections == {10, 180, 270}

StateTideStatuses == {"High", "Low"}

StateTidePreferences == {"Any", "High"}

StateBoardTypes == {"Shortboard", "Soft-top"}

StateRawMin == {Undefined, Text(<<"-", "1">>), Text(<<"1">>)}

StateRawMax == {Undefined, Text(<<" ", "1", ".", "5">>)}

\* January, April (first month of the East Coast season) and November
\* (first month after it).
StateMonthIndexes == {0, 3, 10}

StateForecasts ==
    [ waveHeight    : StateWaveHeights,
      wavePeriod    : StateWavePeriods,
      windSpeed     : StateWindSpeeds,
      windDirection : StateWindDirections,
      tide          : [status : StateTideStatuses] ]

StatePreferences ==
    [ skillLevel     : SkillLevels,
      boardType      : StateBoardTypes,
      tidePreference : StateTidePreferences,
      minWaveHeight  : StateRawMin,
      maxWaveHeight  : StateRawMax ]

(***************************************************************************)
(* The gateway: GET /api/spots.  The prediction process writes a JSON      *)
(* document to its standard output in chunks.  The text is modelled as a   *)
(* sequence of tokens: the opening `{"spots":[`, one token per spot        *)
(* object, the closing `]}`; `{}` is a JSON document without a spots       *)
(* field, and any other text is not JSON.                                  *)
(***************************************************************************)
NoForecast ==
    [waveHeight |-> 0, wavePeriod |-> 0, windSpeed |-> 0, windDirection |-> 0,
     tide |-> [status |-> "High"]]

NoSpot == [id |-> "", name |-> "", region |-> "", forecast |-> NoForecast]

OpenToken == [kind |-> "open", spot |-> NoSpot]

CloseToken == [kind |-> "close", spot |-> NoSpot]

EmptyObjectToken == [kind |-> "emptyObject", spot |-> NoSpot]

GarbageToken == [kind |-> "garbage", spot |-> NoSpot]

SpotToken(spot) == [kind |-> "spot", spot |-> spot]

\* The document the prediction service writes for a list of spots.
RECURSIVE SpotTokens(_)
SpotTokens(spots) ==
    IF spots = <<>> THEN <<>>
    ELSE <<SpotToken(Head(spots))>> \o SpotTokens(Tail(spots))

Document(spots) == <<OpenToken>> \o SpotTokens(spots) \o <<CloseToken>>

\* JSON.parse: the parsed value, or a thrown SyntaxError (ok = FALSE).
JSONParse(text) ==
    IF text = <<EmptyObjectToken>>
      THEN [ok |-> TRUE, hasSpots |-> FALSE, spots |-> <<>>]
    ELSE IF /\ Len(text) >= 2
            /\ text[1] = OpenToken
            /\ text[Len(text)] = CloseToken
            /\ \A i \in 2 .. Len(text) - 1 : text[i].kind = "spot"
      THEN [ok |-> TRUE, hasSpots |-> TRUE,
            spots |-> [i \in 1 .. Len(text) - 2 |-> text[i + 1].spot]]
    ELSE [ok |-> FALSE, hasSpots |-> FALSE, spots |-> <<>>]

\* { ...spot, suitability: suitabilityScore }
WithSuitability(spot, suitabilityScore) ==
    [id |-> spot.id, name |-> spot.name, region |-> spot.region,
     forecast |-> spot.forecast, suitability |-> suitabilityScore]

\* spotsWithPredictions.map(spot => ...)
ScoreSpots(spotsWithPredictions, preferences, date) ==
    [i \in 1 .. Len(spotsWithPredictions) |->
        LET spot == spotsWithPredictions[i]
        IN  WithSuitability(spot,
              calculateSuitability(spot.forecast, preferences, spot.region, date))]

\* Mutant of the comparator: ascending instead of descending.
compareSuitabilityAscending(a, b) == a.suitability - b.suitability

\* Mutant of the comparator: written with a comparison that never returns 0.
compareSuitabilityNoTie(a, b) == IF b.suitability > a.suitability THEN 1 ELSE 0 - 1

\* (a, b) => b.suitability - a.suitability
compareSuitability(a, b) == b.suitability - a.suitability

(***************************************************************************)
(* Array.prototype.sort with the comparator above.  The sort is stable     *)
(* (ECMAScript 2019; V8 sorts short arrays by binary insertion): each      *)
(* element in turn is inserted into the sorted prefix before the first     *)
(* element that the comparator orders after it.                            *)
(***************************************************************************)
RECURSIVE InsertionPoint(_, _, _)
InsertionPoint(sorted, x, i) ==
    IF i > Len(sorted) THEN i
    ELSE IF compareSuitability(x, sorted[i]) < 0 THEN i
    ELSE InsertionPoint(sorted, x, i + 1)

InsertSorted(sorted, x) ==
    LET k == InsertionPoint(sorted, x, 1)
    IN  SubSeq(sorted, 1, k - 1) \o <<x>> \o SubSeq(sorted, k, Len(sorted))

RECURSIVE SortFrom(_, _, _)
SortFrom(list, i, sorted) ==
    IF i > Len(list) THEN sorted
    ELSE SortFrom(list, i + 1, InsertSorted(sorted, list[i]))

SortBySuitability(list) == SortFrom(list, 1, <<>>)

\* An HTTP response: its status (0: none sent yet), whether its JSON body
\* has a spots field, that field, and the body's error message.
NoResponse == [status |-> 0, hasSpots |-> FALSE, spots |-> <<>>, error |-> ""]

\* res.json({ spots: finalRankedSpots })
Ok200(spots) == [status |-> 200, hasSpots |-> TRUE, spots |-> spots, error |-> ""]

\* res.status(500).json({ error: message, ... })
Error500(message) ==
    [status |-> 500, hasSpots |-> FALSE, spots |-> <<>>, error |-> message]

\* The body of pythonProcess.on('close', (code) => ...).
CloseHandler(code, pythonOutput, preferences, date) ==
    IF code # 0
      THEN Error500("The ML prediction engine failed to run.")
    ELSE
      LET model1Result == JSONParse(pythonOutput)
      IN  IF ~model1Result.ok \/ ~model1Result.hasSpots
            THEN Error500("Internal server error while generating recommendations.")
          ELSE Ok200(SortBySuitability(
                       ScoreSpots(model1Result.spots, preferences, date)))

\* The body of pythonProcess.on('close', (code) => ...) of the pass-through
\* variant of the gateway: res.json(result) sends whatever JSON value the
\* process wrote.
CloseHandlerPassThrough(code, dataString) ==
    IF code # 0
      THEN Error500("ML prediction failed. Check Python logs.")
    ELSE
      LET parsed == JSONParse(dataString)
      IN  IF ~parsed.ok
            THEN Error500("Invalid data format from ML engine.")
          ELSE [status |-> 200, hasSpots |-> parsed.hasSpots,
                spots |-> parsed.spots, error |-> ""]

(***************************************************************************)
(* Inputs of the gateway: the spot registry, the forecasts the prediction  *)
(* service may attach to a spot, and the queries a client may send.        *)
(***************************************************************************)
SpotIds == {"1", "2", "3", "4", "5"}

RegionOf(id) == IF id \in {"1", "5"} THEN "East Coast" ELSE "South Coast"

NameOf(id) ==
    CASE id = "1" -> "Arugam Bay" [] id = "2" -> "Weligama"
      [] id = "3" -> "Midigama" [] id = "4" -> "Hiriketiya"
      [] id = "5" -> "Okanda"

GatewayForecasts ==
    { [waveHeight |-> 10, wavePeriod |-> 10, windSpeed |-> 10,
       windDirection |-> 10, tide |-> [status |-> "High"]],
      [waveHeight |-> 20, wavePeriod |-> 10, windSpeed |-> 20,
       windDirection |-> 180, tide |-> [status |-> "Low"]] }

GatewaySpots ==
    { [id |-> i, name |-> NameOf(i), region |-> RegionOf(i), forecast |-> f] :
        i \in SpotIds, f \in GatewayForecasts }

MaxSpots == 3

RECURSIVE SpotListsOfLen(_)
SpotListsOfLen(n) ==
    IF n = 0 THEN {<<>>}
    ELSE { Append(l, sp) :
             l \in SpotListsOfLen(n - 1),
             sp \in GatewaySpots } 

HasDistinctIds(l) == \A i, j \in 1 .. Len(l) : i # j => l[i].id # l[j].id

\* The lists of at most MaxSpots registry spots, each at most once, in
\* every order.
SpotLists ==
    UNION { {l \in SpotListsOfLen(n) : HasDistinctIds(l)} : n \in 0 .. MaxSpots }

GatewayQueries ==
    { [skillLevel |-> "Beginner", boardType |-> "Soft-top",
       tidePreference |-> "Any",
       minWaveHeight |-> Text(<<"0", ".", "5">>),
       maxWaveHeight |-> Text(<<"1", ".", "5">>)],
      [skillLevel |-> "Advanced", boardType |-> "Shortboard",
       tidePreference |-> "Low",
       minWaveHeight |-> Undefined,
       maxWaveHeight |-> Undefined],
      [skillLevel |-> "Expert", boardType |-> "Foil",
       tidePreference |-> "Ebb",
       minWaveHeight |-> Text(<<"0", ".", "5">>),
       maxWaveHeight |-> Text(<<"1", ".", "5">>)] }

GatewayMonthIndexes == {0, 6}

MaxStderr == 1

\* What a run of the prediction process does: the chunks it writes to its
\* standard output, the number of chunks it writes to its standard error,
\* and its exit code.
Processes ==
    [ stdout : {Document(l) : l \in SpotLists}
                 \cup {<<>>, <<GarbageToken>>, <<EmptyObjectToken>>,
                       <<OpenToken>>},
      stderr : 0 .. MaxStderr,
      code   : {0, 1} ]

NoProcess == [stdout |-> <<>>, stderr |-> 0, code |-> 0]

\* spawn() of an executable that cannot be started (PYTHON_EXECUTABLE does
\* not exist or may not be executed): the child writes nothing and carries
\* a negative errno instead of an exit code.
FailedSpawn == [stdout |-> <<>>, stderr |-> 0, code |-> 0 - 2]

SpawnFailed(proc) == proc.code < 0

\* The queries a client may send to the pass-through variant, which reads
\* req.query.skill only: the key may be missing.
PassThroughQueries ==
    { [key \in {} |-> ""],
      [skill |-> ""], [skill |-> "Beginner"], [skill |-> "Advanced"] }

\* const skillLevel = req.query.skill || 'Beginner';
skillLevelOf(query) ==
    IF "skill" \in DOMAIN query /\ query.skill # "" THEN query.skill
    ELSE "Beginner"

VARIABLES
    now,              \* the wall clock: what new Date() returns
    args,             \* the arguments of the calculateSuitability call under test
    result,           \* its return value, once it has been called
    phase,            \* of the /api/spots request: idle, running, responded
    userPreferences,  \* req.query
    process,          \* what the spawned prediction process does
    sent,             \* number of stdout chunks the process has written
    pythonOutput,     \* the handler's stdout buffer
    pythonError,      \* the handler's stderr buffer
    response,         \* the HTTP response sent, if any
    log,              \* the calculateSuitability calls made so far, in order
    requests,         \* concurrent requests: each invocation's req, res, process
    buffers,          \* concurrent requests: the pythonOutput/pythonError cells
    contextPrefs,     \* the app: userPreferences held by the UserContext
    effectDue,        \* the app: the screen's effect is to run after this render
    fetches,          \* the app: the getSpotsData calls the effect has started
    spots,            \* the app: the screen's spots state
    loading,          \* the app: the screen's loading state
    chart,            \* the app: the ForecastChart component's state
    profileCall       \* the app: the last handler the profile screen ran

scorerVars == <<args, result>>

gatewayVars ==
    <<phase, userPreferences, process, sent, pythonOutput, pythonError, response>>

concurrentVars == <<requests, buffers>>

appVars == <<contextPrefs, effectDue, fetches, spots, loading, chart>>

vars == <<now, args, result, phase, userPreferences, process, sent,
          pythonOutput, pythonError, response, log, concurrentVars, appVars,
          profileCall>>

NotCalled == [called |-> FALSE, value |-> 0]

Returned(v) == [called |-> TRUE, value |-> v]

IdleArgs ==
    [ predictions |-> NoForecast,
      preferences |-> [skillLevel |-> "Beginner", boardType |-> "Soft-top",
                       tidePreference |-> "Any", minWaveHeight |-> Undefined,
                       maxWaveHeight |-> Undefined],
      spotRegion  |-> "East Coast" ]

GatewayIdle ==
    /\ phase = "idle"
    /\ userPreferences = IdleArgs.preferences
    /\ process = NoProcess
    /\ sent = 0
    /\ pythonOutput = <<>>
    /\ pythonError = <<>>
    /\ response = NoResponse

\* The requests the server may be handling at the same time.
RequestIds == {1, 2}

IdleRequest ==
    [phase |-> "idle", userPreferences |-> IdleArgs.preferences,
     process |-> NoProcess, sent |-> 0, response |-> NoResponse]

EmptyBuffer == [pythonOutput |-> <<>>, pythonError |-> <<>>]

ConcurrentIdle ==
    /\ requests = [r \in RequestIds |-> IdleRequest]
    /\ buffers = [c \in RequestIds |-> EmptyBuffer]

(***************************************************************************)
(* The mobile app.  JavaScript values the app handles: a string, or an     *)
(* object; the value a getSpotsData call resolves to is an array of spots  *)
(* or undefined.                                                           *)
(***************************************************************************)
JsString(s) == [type |-> "string", str |-> s, fields |-> <<>>]

JsObject(fields) == [type |-> "object", str |-> "", fields |-> fields]

ArrayOf(items) == [isArray |-> TRUE, items |-> items]

EmptyArray == ArrayOf(<<>>)

UndefinedData == [isArray |-> FALSE, items |-> <<>>]

\* useState({ skillLevel: 'Beginner', minWaveHeight: 0.5, ... }): the two
\* versions of the UserContext differ in the board.
InitialPreferences ==
    { [skillLevel |-> "Beginner", minWaveHeight |-> 5, maxWaveHeight |-> 15,
       tidePreference |-> "Any", boardType |-> b] : b \in {"Soft-top", "Longboard"} }

NoChart == [phase |-> "unmounted", loading |-> TRUE, hasData |-> FALSE]

\* The profile screen has run no handler yet.
NoProfileCall ==
    [handler |-> "", key |-> "", value |-> Undefined,
     before |-> [skillLevel |-> "", minWaveHeight |-> 0, maxWaveHeight |-> 0,
                 tidePreference |-> "", boardType |-> ""]]

AppIdle ==
    /\ contextPrefs \in {p \in InitialPreferences : p.boardType = "Soft-top"}
    /\ effectDue = FALSE
    /\ fetches = <<>>
    /\ spots = EmptyArray
    /\ loading = TRUE
    /\ chart = NoChart
    /\ profileCall = NoProfileCall

(***************************************************************************)
(* The scorer on its own: the arguments are drawn in the initial state and *)
(* the one action calls calculateSuitability on them.                      *)
(***************************************************************************)
InitScore ==
    /\ now \in [monthIndex : StateMonthIndexes, day : {1}]
    /\ args \in [ predictions : StateForecasts,
                  preferences : StatePreferences,
                  spotRegion  : Regions ]
    /\ result = NotCalled
    /\ log = <<>>
    /\ GatewayIdle
    /\ ConcurrentIdle
    /\ AppIdle

\* One call of calculateSuitability on the arguments.
Score ==
    /\ ~result.called
    /\ result' = Returned(calculateSuitability(args.predictions, args.preferences,
                                               args.spotRegion, now))
    /\ UNCHANGED <<now, args, log>>
    /\ UNCHANGED <<gatewayVars, concurrentVars, appVars, profileCall>>

NextScore == Score

SpecScore == InitScore /\ [][NextScore]_vars

(***************************************************************************)
(* The gateway handling one GET /api/spots request.                        *)
(***************************************************************************)
Init ==
    /\ now \in [monthIndex : GatewayMonthIndexes, day : {1}]
    /\ args = IdleArgs
    /\ result = NotCalled
    /\ log = <<>>
    /\ GatewayIdle
    /\ ConcurrentIdle
    /\ AppIdle

\* app.get('/api/spots', (req, res) => { ... spawn ... })
Request(query, proc) ==
    /\ phase = "idle"
    /\ phase' = "running"
    /\ userPreferences' = query
    /\ process' = proc
    /\ sent' = 0
    /\ pythonOutput' = <<>>
    /\ pythonError' = <<>>
    /\ UNCHANGED <<now, response>>
    /\ UNCHANGED <<scorerVars, log, concurrentVars, appVars, profileCall>>

\* pythonProcess.stdout.on('data', ...)
StdoutData ==
    /\ phase = "running"
    /\ sent < Len(process.stdout)
    /\ pythonOutput' = Append(pythonOutput, process.stdout[sent + 1])
    /\ sent' = sent + 1
    /\ UNCHANGED <<now, phase, userPreferences, process, pythonError, response>>
    /\ UNCHANGED <<scorerVars, log, concurrentVars, appVars, profileCall>>

\* pythonProcess.stderr.on('data', ...)
StderrData ==
    /\ phase = "running"
    /\ Len(pythonError) < process.stderr
    /\ pythonError' = Append(pythonError, "log")
    /\ UNCHANGED <<now, phase, userPreferences, process, sent, pythonOutput, response>>
    /\ UNCHANGED <<scorerVars, log, concurrentVars, appVars, profileCall>>

\* pythonProcess.on('close', ...): emitted once the process has ended and
\* its stdio streams have been closed, so after every chunk was delivered.
Close ==
    /\ phase = "running"
    /\ ~SpawnFailed(process)
    /\ sent = Len(process.stdout)
    /\ Len(pythonError) = process.stderr
    /\ response' = CloseHandler(process.code, pythonOutput, userPreferences, now)
    /\ phase' = "responded"
    /\ UNCHANGED <<now, userPreferences, process, sent, pythonOutput, pythonError>>
    /\ UNCHANGED <<scorerVars, log, concurrentVars, appVars, profileCall>>

\* The child process could not be started: it emits 'error'.  The handler
\* registers no listener for 'error', so the emit throws, the exception is
\* uncaught and the server process ends; nothing is written to res.
SpawnError ==
    /\ phase = "running"
    /\ SpawnFailed(process)
    /\ phase' = "crashed"
    /\ UNCHANGED <<now, userPreferences, process, sent, pythonOutput,
                   pythonError, response>>
    /\ UNCHANGED <<scorerVars, log, concurrentVars, appVars, profileCall>>

\* A client sends a request; the process spawned for it does one of
\* Processes, or cannot be started.
Arrive ==
    /\ phase = "idle"
    /\ \E query \in GatewayQueries, proc \in Processes \cup {FailedSpawn} :
          Request(query, proc)

Next ==
    \/ Arrive
    \/ StdoutData
    \/ StderrData
    \/ Close
    \/ SpawnError

Spec == Init /\ [][Next]_vars

(***************************************************************************)
(* The pass-through variant of the gateway handling one GET /api/spots     *)
(* request: it hands the skill level to the prediction process and         *)
(* forwards the JSON the process writes.                                   *)
(***************************************************************************)
\* app.get('/api/spots', (req, res) => { ... spawn ... }), pass-through
RequestPassThrough(query, proc) ==
    /\ phase = "idle"
    /\ phase' = "running"
    /\ userPreferences' = [skillLevel |-> skillLevelOf(query)]
    /\ process' = proc
    /\ sent' = 0
    /\ pythonOutput' = <<>>
    /\ pythonError' = <<>>
    /\ UNCHANGED <<now, response>>
    /\ UNCHANGED <<scorerVars, log, concurrentVars, appVars, profileCall>>

ArrivePassThrough ==
    /\ phase = "idle"
    /\ \E query \in PassThroughQueries, proc \in Processes \cup {FailedSpawn} :
          RequestPassThrough(query, proc)

\* pythonProcess.on('close', ...) of the pass-through variant.
ClosePassThrough ==
    /\ phase = "running"
    /\ ~SpawnFailed(process)
    /\ sent = Len(process.stdout)
    /\ Len(pythonError) = process.stderr
    /\ response' = CloseHandlerPassThrough(process.code, pythonOutput)
    /\ phase' = "responded"
    /\ UNCHANGED <<now, userPreferences, process, sent, pythonOutput, pythonError>>
    /\ UNCHANGED <<scorerVars, log, concurrentVars, appVars, profileCall>>

NextPassThrough ==
    \/ ArrivePassThrough
    \/ StdoutData
    \/ StderrData
    \/ ClosePassThrough
    \/ SpawnError

SpecPassThrough == Init /\ [][NextPassThrough]_vars

(***************************************************************************)
(* The gateway handling several requests at once.  Every invocation of the *)
(* handler has its own req and res, spawns its own process and declares    *)
(* its own pythonOutput and pythonError; the events of the processes       *)
(* arrive in any order.                                                    *)
(***************************************************************************)
\* Mutant: the buffers declared once for the module, outside the handler.
BufferDeclaredOnce(r) == 1

\* The cell that holds the pythonOutput and pythonError of invocation r:
\* `let pythonOutput = ''` is inside the handler, so one per invocation.
BufferOf(r) == r

ConcurrentSpotA ==
    [id |-> "1", name |-> NameOf("1"), region |-> RegionOf("1"),
     forecast |-> [waveHeight |-> 10, wavePeriod |-> 10, windSpeed |-> 10,
                   windDirection |-> 10, tide |-> [status |-> "High"]]]

ConcurrentSpotB ==
    [id |-> "2", name |-> NameOf("2"), region |-> RegionOf("2"),
     forecast |-> [waveHeight |-> 20, wavePeriod |-> 10, windSpeed |-> 20,
                   windDirection |-> 180, tide |-> [status |-> "Low"]]]

ConcurrentProcesses ==
    [ stdout : {Document(<<ConcurrentSpotA>>), Document(<<ConcurrentSpotB>>),
                <<GarbageToken>>},
      stderr : {0, 1},
      code   : {0, 1} ] \cup {FailedSpawn}

InitConcurrent ==
    /\ now \in [monthIndex : GatewayMonthIndexes, day : {1}]
    /\ args = IdleArgs
    /\ result = NotCalled
    /\ log = <<>>
    /\ GatewayIdle
    /\ ConcurrentIdle
    /\ AppIdle

\* app.get('/api/spots', (req, res) => { ... spawn ... }), invocation r
RequestOf(r, query, proc) ==
    /\ requests[r].phase = "idle"
    /\ requests' = [requests EXCEPT ![r] =
                      [phase |-> "running", userPreferences |-> query,
                       process |-> proc, sent |-> 0, response |-> NoResponse]]
    /\ buffers' = [buffers EXCEPT ![BufferOf(r)] = EmptyBuffer]
    /\ UNCHANGED <<now, scorerVars, log, gatewayVars, appVars, profileCall>>

ArriveOf(r) ==
    /\ requests[r].phase = "idle"
    /\ \E query \in GatewayQueries, proc \in ConcurrentProcesses :
          RequestOf(r, query, proc)

\* pythonProcess.stdout.on('data', ...) of invocation r
StdoutDataOf(r) ==
    /\ requests[r].phase = "running"
    /\ requests[r].sent < Len(requests[r].process.stdout)
    /\ buffers' = [buffers EXCEPT ![BufferOf(r)].pythonOutput =
                     Append(@, requests[r].process.stdout[requests[r].sent + 1])]
    /\ requests' = [requests EXCEPT ![r].sent = @ + 1]
    /\ UNCHANGED <<now, scorerVars, log, gatewayVars, appVars, profileCall>>

\* pythonProcess.stderr.on('data', ...) of invocation r
StderrDataOf(r) ==
    /\ requests[r].phase = "running"
    /\ Len(buffers[BufferOf(r)].pythonError) < requests[r].process.stderr
    /\ buffers' = [buffers EXCEPT ![BufferOf(r)].pythonError = Append(@, "log")]
    /\ UNCHANGED <<now, scorerVars, log, gatewayVars, appVars, requests, profileCall>>

\* pythonProcess.on('close', ...) of invocation r
CloseOf(r) ==
    /\ requests[r].phase = "running"
    /\ ~SpawnFailed(requests[r].process)
    /\ requests[r].sent = Len(requests[r].process.stdout)
    /\ Len(buffers[BufferOf(r)].pythonError) >= requests[r].process.stderr
    /\ requests' = [requests EXCEPT
                      ![r].phase = "responded",
                      ![r].response =
                          CloseHandler(requests[r].process.code,
                                       buffers[BufferOf(r)].pythonOutput,
                                       requests[r].userPreferences, now)]
    /\ UNCHANGED <<now, scorerVars, log, gatewayVars, appVars, buffers, profileCall>>

\* The process of invocation r could not be started: its unhandled 'error'
\* event ends the server, and with it every request still being handled.
SpawnErrorOf(r) ==
    /\ requests[r].phase = "running"
    /\ SpawnFailed(requests[r].process)
    /\ requests' = [q \in RequestIds |->
                      IF requests[q].phase = "running"
                        THEN [requests[q] EXCEPT !.phase = "crashed"]
                        ELSE requests[q]]
    /\ UNCHANGED <<now, scorerVars, log, gatewayVars, appVars, buffers, profileCall>>

NextConcurrent ==
    \E r \in RequestIds :
        \/ ArriveOf(r)
        \/ StdoutDataOf(r)
        \/ StderrDataOf(r)
        \/ CloseOf(r)
        \/ SpawnErrorOf(r)

SpecConcurrent == InitConcurrent /\ [][NextConcurrent]_vars

(***************************************************************************)
(* The scorer called repeatedly while time passes: a caller holds the      *)
(* argument objects, calls calculateSuitability on them, and may replace   *)
(* them by other arguments between calls.  Every call is logged with the   *)
(* date it was made on.                                                    *)
(***************************************************************************)
MaxCalls == 3

MaxDay == 3

\* March and October: the months before the East Coast season starts and
\* ends.
ClockStartMonthIndexes == {2, 9}

ClockArgs ==
    [ predictions : GatewayForecasts,
      preferences : {IdleArgs.preferences},
      spotRegion  : Regions ]

InitClock ==
    /\ now \in [monthIndex : ClockStartMonthIndexes, day : {1}]
    /\ args \in ClockArgs
    /\ result = NotCalled
    /\ log = <<>>
    /\ GatewayIdle
    /\ ConcurrentIdle
    /\ AppIdle

\* calculateSuitability(predictions, preferences, spotRegion): reads its
\* arguments and the clock, writes nothing but its own locals.
Call ==
    /\ Len(log) < MaxCalls
    /\ LET value == calculateSuitability(args.predictions, args.preferences,
                                         args.spotRegion, now)
       IN  /\ result' = Returned(value)
           /\ log' = Append(log, [args |-> args, monthIndex |-> now.monthIndex,
                                  day |-> now.day, value |-> value])
    /\ UNCHANGED <<now, args>>
    /\ UNCHANGED <<gatewayVars, concurrentVars, appVars, profileCall>>

\* The caller turns to other arguments.
Prepare(a) ==
    /\ Len(log) < MaxCalls
    /\ a # args
    /\ args' = a
    /\ UNCHANGED <<now, result, log>>
    /\ UNCHANGED <<gatewayVars, concurrentVars, appVars, profileCall>>

\* A day passes within the month.
NextDay ==
    /\ Len(log) < MaxCalls
    /\ now.day < MaxDay
    /\ now' = [now EXCEPT !.day = now.day + 1]
    /\ UNCHANGED <<args, result, log>>
    /\ UNCHANGED <<gatewayVars, concurrentVars, appVars, profileCall>>

\* The month ends (once in a run).
NextMonth ==
    /\ Len(log) < MaxCalls
    /\ now.monthIndex \in ClockStartMonthIndexes
    /\ now' = [monthIndex |-> (now.monthIndex + 1) % 12, day |-> 1]
    /\ UNCHANGED <<args, result, log>>
    /\ UNCHANGED <<gatewayVars, concurrentVars, appVars, profileCall>>

NextClock ==
    \/ Call
    \/ \E a \in ClockArgs : Prepare(a)
    \/ NextDay
    \/ NextMonth

SpecClock == InitClock /\ [][NextClock]_vars

(***************************************************************************)
(* The app: a screen (SpotsListScreen, HomeScreen) reads userPreferences   *)
(* from the UserContext; its effect runs after the first render and after  *)
(* every render in which userPreferences is a new object, and starts a     *)
(* getSpotsData call; the calls settle in any order.  The ForecastChart    *)
(* component fetches its data once, when it is mounted.                    *)
(***************************************************************************)
PreferenceKeys ==
    {"skillLevel", "minWaveHeight", "maxWaveHeight", "tidePreference", "boardType"}

\* `${skillLevel}` in the template literal: the value converted to a string.
TemplateText(v) == IF v.type = "object" THEN "[object Object]" ELSE v.str

\* fetch(`${API_BASE_URL}/spots?skill=${skillLevel}`): the query of the
\* requested URL, as the server finds it in req.query.
getSpotsDataQuery(skillLevel) == [skill |-> TemplateText(skillLevel)]

\* req.query[key]: undefined when the URL carries no such key.
QueryRead(query, key) ==
    IF key \in DOMAIN query THEN [defined |-> TRUE, text |-> query[key]]
    ELSE [defined |-> FALSE, text |-> ""]

\* What the gateway may answer to the app's request.
AppStdouts == {Document(<<>>), Document(<<ConcurrentSpotA>>), <<EmptyObjectToken>>}

ServerResponses ==
    {CloseHandlerPassThrough(code, out) : code \in {0, 1}, out \in AppStdouts}

\* What may happen to a fetch(): it rejects (no connection), or it resolves
\* to a response.
FetchOutcomes ==
    {[rejected |-> TRUE, response |-> NoResponse]}
      \cup {[rejected |-> FALSE, response |-> r] : r \in ServerResponses}

NoOutcome == [rejected |-> FALSE, response |-> NoResponse]

\* response.ok
ResponseOk(resp) == resp.status >= 200 /\ resp.status <= 299

\* What getSpotsData resolves to: data.spots of an OK response, [] when
\* fetch rejected or the response was not OK.
getSpotsDataResult(outcome) ==
    IF outcome.rejected \/ ~ResponseOk(outcome.response) THEN EmptyArray
    ELSE IF outcome.response.hasSpots THEN ArrayOf(outcome.response.spots)
    ELSE UndefinedData

\* What get7DayForecast resolves to: the body of an OK response, or the
\* default structure.
get7DayForecastResult(outcome) ==
    IF outcome.rejected \/ ~ResponseOk(outcome.response) THEN "default"
    ELSE "body"

\* Mutant of the effect's finally block: loading is cleared after
\* setSpots(data) only, for a list that has spots.
LoadingWhenSettledOnData(data) == ~(data.isArray /\ data.items # <<>>)

\* finally { setLoading(false); }
LoadingWhenSettled(data) == FALSE

MaxFetches == 2

\* What the profile screen may pass to updatePreferences.
PreferenceUpdates ==
    { [skillLevel |-> "Advanced"], [minWaveHeight |-> 0] }

InitApp ==
    /\ now = [monthIndex |-> 0, day |-> 1]
    /\ args = IdleArgs
    /\ result = NotCalled
    /\ log = <<>>
    /\ GatewayIdle
    /\ ConcurrentIdle
    /\ contextPrefs \in InitialPreferences
    /\ effectDue = TRUE
    /\ fetches = <<>>
    /\ spots = EmptyArray
    /\ loading = TRUE
    /\ chart = [phase |-> "mounted", loading |-> TRUE, hasData |-> FALSE]
    /\ profileCall = NoProfileCall

notAppVars == <<now, scorerVars, log, gatewayVars, concurrentVars>>

\* updatePreferences(newPrefs): setUserPreferences(prev => ({...prev,
\* ...newPrefs})); the new object makes the screens render and their
\* effects run again.
updatePreferences(newPrefs) ==
    /\ Len(fetches) + (IF effectDue THEN 1 ELSE 0) < MaxFetches
    /\ contextPrefs' = newPrefs @@ contextPrefs
    /\ effectDue' = TRUE
    /\ UNCHANGED <<fetches, spots, loading, chart, notAppVars, profileCall>>

\* The screen's effect: fetchSpots() runs up to its await, after
\* setLoading(true) and the call of getSpotsData(userPreferences).
fetchSpots ==
    /\ effectDue
    /\ effectDue' = FALSE
    /\ loading' = TRUE
    /\ fetches' = Append(fetches,
                     [prefs    |-> contextPrefs,
                      query    |-> getSpotsDataQuery(JsObject(contextPrefs)),
                      settled  |-> FALSE,
                      outcome  |-> NoOutcome])
    /\ UNCHANGED <<contextPrefs, spots, chart, notAppVars, profileCall>>

\* The i-th call of getSpotsData settles: fetchSpots resumes after its
\* await with setSpots(data) and the finally block.
Settle(i, outcome) ==
    /\ ~fetches[i].settled
    /\ LET data == getSpotsDataResult(outcome)
       IN  /\ spots' = data
           /\ loading' = LoadingWhenSettled(data)
    /\ fetches' = [fetches EXCEPT ![i].settled = TRUE, ![i].outcome = outcome]
    /\ UNCHANGED <<contextPrefs, effectDue, chart, notAppVars, profileCall>>

SettleSome ==
    \E i \in DOMAIN fetches :
        /\ ~fetches[i].settled
        /\ \E outcome \in FetchOutcomes : Settle(i, outcome)

\* ForecastChart's effect: fetchData() runs up to its await.
fetchData ==
    /\ chart.phase = "mounted"
    /\ chart' = [chart EXCEPT !.phase = "fetching"]
    /\ UNCHANGED <<contextPrefs, effectDue, fetches, spots, loading, notAppVars, profileCall>>

\* get7DayForecast settles: setChartData(data) and the finally block.
ChartSettle(outcome) ==
    /\ chart.phase = "fetching"
    /\ chart' = [phase |-> "settled", loading |-> FALSE,
                 hasData |-> get7DayForecastResult(outcome) = "body"]
    /\ UNCHANGED <<contextPrefs, effectDue, fetches, spots, loading, notAppVars, profileCall>>

ChartSettleSome == \E outcome \in FetchOutcomes : ChartSettle(outcome)

NextApp ==
    \/ \E newPrefs \in PreferenceUpdates : updatePreferences(newPrefs)
    \/ fetchSpots
    \/ SettleSome
    \/ fetchData
    \/ ChartSettleSome

SpecApp == InitApp /\ [][NextApp]_vars

\* The effects run after the render that scheduled them, and every fetch
\* that was started settles.
SpecAppFair ==
    /\ SpecApp
    /\ WF_vars(fetchSpots)
    /\ WF_vars(SettleSome)
    /\ WF_vars(fetchData)
    /\ WF_vars(ChartSettleSome)

(***************************************************************************)
(* The profile screen: a button for every option of the skill, tide and    *)
(* board lists, and two text fields whose every change of text is handed   *)
(* to handleNumericChange.  The last handler run is recorded with its      *)
(* arguments and the preferences it found.                                 *)
(***************************************************************************)
skillOptions == {"Beginner", "Intermediate", "Advanced"}

tideOptions == {"Any", "High", "Mid", "Low"}

boardOptions == {"Shortboard", "Longboard", "Soft-top"}

NumericKeys == {"minWaveHeight", "maxWaveHeight"}

\* The texts a wave-height field may hold after a change.
InputTexts ==
    { Text(<<>>), Text(<<" ">>), Text(<<"a", "b", "c">>),
      Text(<<"-">>), Text(<<"-", "1">>), Text(<<"-", "0", ".", "5">>),
      Text(<<".">>), Text(<<".", "5">>), Text(<<"0">>),
      Text(<<"0", ".", "5">>), Text(<<" ", "1", ".", "5">>),
      Text(<<"3", "m">>) }

\* Mutant of handleNumericChange: the test `num >= 0` left out.
handleNumericChangeAnyNumber(value) ==
    LET num == parseFloat(value)
    IN  IF ~num.nan THEN [called |-> TRUE, num |-> num.val]
        ELSE IF value.text = <<>> THEN [called |-> TRUE, num |-> 0]
        ELSE [called |-> FALSE, num |-> 0]

\* handleNumericChange(key, value): whether it calls updatePreferences, and
\* with which number for the key.
handleNumericChangeUpdate(value) ==
    LET num == parseFloat(value)
    IN  IF ~num.nan /\ num.val >= 0 THEN [called |-> TRUE, num |-> num.val]
        ELSE IF value.text = <<>> THEN [called |-> TRUE, num |-> 0]
        ELSE [called |-> FALSE, num |-> 0]

InitProfile ==
    /\ now = [monthIndex |-> 0, day |-> 1]
    /\ args = IdleArgs
    /\ result = NotCalled
    /\ log = <<>>
    /\ GatewayIdle
    /\ ConcurrentIdle
    /\ contextPrefs \in InitialPreferences
    /\ effectDue = FALSE
    /\ fetches = <<>>
    /\ spots = EmptyArray
    /\ loading = TRUE
    /\ chart = NoChart
    /\ profileCall = NoProfileCall

\* onPress={() => updatePreferences({ [key]: option })} of an option button
onPress(key, option) ==
    /\ profileCall' = [handler |-> "onPress", key |-> key,
                       value |-> Text(<<option>>), before |-> contextPrefs]
    /\ contextPrefs' = (key :> option) @@ contextPrefs
    /\ effectDue' = TRUE
    /\ UNCHANGED <<fetches, spots, loading, chart, notAppVars>>

\* onChangeText={(text) => handleNumericChange(key, text)}
handleNumericChange(key, value) ==
    /\ profileCall' = [handler |-> "handleNumericChange", key |-> key,
                       value |-> value, before |-> contextPrefs]
    /\ LET update == handleNumericChangeUpdate(value)
       IN  IF update.called
             THEN /\ contextPrefs' = (key :> update.num) @@ contextPrefs
                  /\ effectDue' = TRUE
             ELSE UNCHANGED <<contextPrefs, effectDue>>
    /\ UNCHANGED <<fetches, spots, loading, chart, notAppVars>>

pressSkill == \E option \in skillOptions : onPress("skillLevel", option)

pressTide == \E option \in tideOptions : onPress("tidePreference", option)

pressBoard == \E option \in boardOptions : onPress("boardType", option)

changeText ==
    \E key \in NumericKeys, value \in InputTexts : handleNumericChange(key, value)

NextProfile ==
    \/ pressSkill
    \/ pressTide
    \/ pressBoard
    \/ changeText

SpecProfile == InitProfile /\ [][NextProfile]_vars

\* What the screen renders.
Rendered ==
    IF loading THEN "spinner"
    ELSE IF ~spots.isArray THEN "TypeError"
    ELSE IF Len(spots.items) = 0 THEN "no spots"
    ELSE "list"

FetchInFlight == \E i \in DOMAIN fetches : ~fetches[i].settled

(***************************************************************************)
(* Shorthands used by the properties.                                      *)
(***************************************************************************)
ScoreOf(a, date) ==
    calculateSuitability(a.predictions, a.preferences, a.spotRegion, date)

RawOf(a, date) == RawScore(a.predictions, a.preferences, a.spotRegion, date)

\* The deductions of the seven rules for a call, as the code computes them.
DeductionsOf(a, date) ==
    LET p == a.predictions
        q == a.preferences
    IN  << SkillDeduction(q.skillLevel, p.waveHeight),
           RangeDeduction(p.waveHeight, minWaveHeightOf(q), maxWaveHeightOf(q)),
           PeriodDeduction(q.boardType, p.wavePeriod),
           WindDeduction(p.windSpeed),
           OffshoreDeduction(a.spotRegion, p.windDirection),
           TideDeduction(q.tidePreference, p.tide),
           SeasonDeduction(a.spotRegion, date) >>

SumOf(d) == d[1] + d[2] + d[3] + d[4] + d[5] + d[6] + d[7]

(***************************************************************************)
(* C1: calculateSuitability returns an integer in 0..100 for every         *)
(* forecast, preference record, region and month; when every rule fires    *)
(* (raw score 100 - 260 = -160) it returns 0 and when no rule fires (raw   *)
(* score 100) it returns 100.                                              *)
(***************************************************************************)
C1_ScoreWithinBounds ==
    result.called =>
        /\ result.value \in 0 .. 100
        /\ RawOf(args, now) = 0 - 160 => result.value = 0
        /\ RawOf(args, now) = 100 => result.value = 100

C1_Witness ==
    /\ result.called
    /\ DeductionsOf(args, now) = <<60, 25, 20, 50, 30, 15, 60>>
    /\ RawOf(args, now) = 0 - 160
    /\ result.value = 0

(***************************************************************************)
(* C2: the offshore-wind rule is decided by the window of the spot's own   *)
(* region only: an East Coast spot is deducted 30 exactly when its wind    *)
(* direction is not strictly between 240 and 300, a South Coast spot       *)
(* exactly when it is neither above 330 nor below 30.  Stated on the raw   *)
(* score: the call scores 30 less than the same call with a wind direction *)
(* inside the region's window exactly when its own direction is outside.   *)
(***************************************************************************)
InOwnWindow(spotRegion, windDirection) ==
    IF spotRegion = "East Coast"
      THEN windDirection > 240 /\ windDirection < 300
      ELSE windDirection > 330 \/ windDirection < 30

MidWindow(spotRegion) == IF spotRegion = "East Coast" THEN 270 ELSE 350

C2_OffshoreByOwnRegion ==
    result.called =>
        \A wd \in WindDirections \cup {args.predictions.windDirection} :
            RawOf([args EXCEPT !.predictions.windDirection = wd], now)
              = RawOf([args EXCEPT !.predictions.windDirection =
                                       MidWindow(args.spotRegion)], now)
                - (IF InOwnWindow(args.spotRegion, wd) THEN 0 ELSE 30)

(***************************************************************************)
(* C3: a missing, non-numeric or negative minWaveHeight scores as          *)
(* minWaveHeight = 0.5 does, and a missing, non-numeric or negative        *)
(* maxWaveHeight as maxWaveHeight = 2.5 does.                              *)
(***************************************************************************)
IsInvalidHeight(v) ==
    \/ ~v.defined
    \/ parseFloat(v).nan
    \/ parseFloat(v).val < 0

C3_DefaultSubstitution ==
    result.called =>
        /\ IsInvalidHeight(args.preferences.minWaveHeight) =>
              result.value =
                ScoreOf([args EXCEPT !.preferences.minWaveHeight =
                                         Text(<<"0", ".", "5">>)], now)
        /\ IsInvalidHeight(args.preferences.maxWaveHeight) =>
              result.value =
                ScoreOf([args EXCEPT !.preferences.maxWaveHeight =
                                         Text(<<"2", ".", "5">>)], now)

\* The rules other than rule i deduct nothing.
OnlyRuleFires(d, i) == \A j \in 1 .. 7 : j # i => d[j] = 0

(***************************************************************************)
(* C6: the skill rule deducts, with strict comparisons, 60 from a Beginner *)
(* when waveHeight > 1.5, otherwise 30 when waveHeight > 1.0; 20 from an   *)
(* Intermediate when waveHeight < 0.8 and 40 when waveHeight > 2.5; 30     *)
(* from an Advanced surfer when waveHeight < 1.5.  A Beginner at 2.0 m     *)
(* with no other rule firing scores 40, and a Beginner at exactly 1.5 m is *)
(* deducted 30.                                                            *)
(***************************************************************************)
SkillRuleAsStated(skillLevel, waveHeight) ==
    CASE skillLevel = "Beginner" ->
           IF waveHeight > 15 THEN 60 ELSE IF waveHeight > 10 THEN 30 ELSE 0
      [] skillLevel = "Intermediate" ->
           (IF waveHeight < 8 THEN 20 ELSE 0) + (IF waveHeight > 25 THEN 40 ELSE 0)
      [] skillLevel = "Advanced" ->
           IF waveHeight < 15 THEN 30 ELSE 0

C6_SkillRule ==
    result.called =>
        LET q == args.preferences
            d == DeductionsOf(args, now)
        IN  /\ \A wh \in WaveHeights :
                  LET a == [args EXCEPT !.predictions.waveHeight = wh]
                      e == DeductionsOf(a, now)
                  IN  RawOf(a, now) =
                        100 - SkillRuleAsStated(q.skillLevel, wh)
                            - (e[2] + e[3] + e[4] + e[5] + e[6] + e[7])
            /\ (q.skillLevel = "Beginner" /\ args.predictions.waveHeight = 20
                  /\ OnlyRuleFires(d, 1)) => result.value = 40
            /\ (q.skillLevel = "Beginner" /\ args.predictions.waveHeight = 15
                  /\ OnlyRuleFires(d, 1)) => result.value = 70

C6_Witness ==
    /\ result.called
    /\ args.preferences.skillLevel = "Beginner"
    /\ args.predictions.waveHeight = 20
    /\ OnlyRuleFires(DeductionsOf(args, now), 1)
    /\ result.value = 40

(***************************************************************************)
(* C7: deductions are additive and all seven rules are evaluated on every  *)
(* call: the score is max(0, min(100, 100 - sum of the deductions of the   *)
(* rules whose conditions hold)).  For an Advanced surfer with waveHeight  *)
(* 2.0 inside the user's range, wavePeriod 10, windSpeed 30, offshore      *)
(* wind, a tide that does not match a non-Any tidePreference and a region  *)
(* in season, only the wind rule (50) and the tide rule (15) fire and the  *)
(* score is 35.                                                            *)
(***************************************************************************)
IsScenarioB(a, date) ==
    /\ a.preferences.skillLevel = "Advanced"
    /\ a.predictions.waveHeight = 20
    /\ minWaveHeightOf(a.preferences) <= 20
    /\ maxWaveHeightOf(a.preferences) >= 20
    /\ a.predictions.wavePeriod = 10
    /\ a.predictions.windSpeed = 30
    /\ InOwnWindow(a.spotRegion, a.predictions.windDirection)
    /\ a.preferences.tidePreference # "Any"
    /\ a.predictions.tide.status # a.preferences.tidePreference
    /\ (a.spotRegion = "East Coast") = (date.monthIndex + 1 \in 4 .. 10)

C8_SeasonRule ==
    result.called =>
        LET d == DeductionsOf(args, now)
        IN  /\ \A m \in MonthIndexes :
                  LET date == [now EXCEPT !.monthIndex = m]
                      off  == IF args.spotRegion = "East Coast"
                                THEN m + 1 \notin 4 .. 10
                                ELSE m + 1 \in 4 .. 10
                  IN  /\ RawOf(args, date) =
                           100 - (d[1] + d[2] + d[3] + d[4] + d[5] + d[6])
                               - (IF off THEN 60 ELSE 0)
                      /\ SeasonDeduction("East Coast", date)
                           + SeasonDeduction("South Coast", date) = 60
            /\ (args.spotRegion = "East Coast" /\ now.monthIndex = 0
                  /\ OnlyRuleFires(d, 7)) => result.value = 40

C8_Witness ==
    /\ result.called
    /\ args.spotRegion = "East Coast"
    /\ now.monthIndex = 0
    /\ OnlyRuleFires(DeductionsOf(args, now), 7)
    /\ result.value = 40

(***************************************************************************)
(* C9: the score is monotone non-increasing in windSpeed: of two calls     *)
(* that differ only in windSpeed, the one with the larger windSpeed never  *)
(* scores higher; the rule deducts 0 up to 15, 25 above 15 and 50 above    *)
(* 25.                                                                     *)
(***************************************************************************)
\* f is non-increasing over its (numeric) domain.
IsNonIncreasing(f) ==
    \A w1, w2 \in DOMAIN f : w1 <= w2 => f[w2] <= f[w1]

\* raw is the raw score per wind speed: the wind rule's steps and nothing else.
HasWindSteps(raw) ==
    \A w \in DOMAIN raw :
        raw[w] = raw[0] - (IF w > 25 THEN 50 ELSE IF w > 15 THEN 25 ELSE 0)

C9_WindMonotone ==
    result.called =>
        LET speeds == WindSpeeds \cup {args.predictions.windSpeed}
        IN  /\ IsNonIncreasing(
                 [w \in speeds |->
                    ScoreOf([args EXCEPT !.predictions.windSpeed = w], now)])
            /\ HasWindSteps(
                 [w \in speeds |->
                    RawOf([args EXCEPT !.predictions.windSpeed = w], now)])

C9_Witness ==
    /\ result.called
    /\ args.predictions.windSpeed = 30
    /\ result.value > 0
    /\ result.value + 50 =
         ScoreOf([args EXCEPT !.predictions.windSpeed = 10], now)

(***************************************************************************)
(* Shorthands for the gateway properties: the list the prediction process  *)
(* wrote, the score the scorer gives to each of its spots, and where a     *)
(* spot stands in the ranked list of the response.                         *)
(***************************************************************************)
WroteSpotList ==
    /\ process.code = 0
    /\ JSONParse(process.stdout).ok
    /\ JSONParse(process.stdout).hasSpots

ProviderSpots == JSONParse(process.stdout).spots

ExpectedSuitability(spot) ==
    calculateSuitability(spot.forecast, userPreferences, spot.region, now)

PositionsOf(ranked, id) == {k \in 1 .. Len(ranked) : ranked[k].id = id}

(***************************************************************************)
(* C4: the ranked list of the response holds exactly the spots the         *)
(* provider returned, each once, each with suitability =                   *)
(* calculateSuitability(spot.forecast, preferences, spot.region), in an    *)
(* order in which suitability never increases; an empty provider list      *)
(* gives a successful response with an empty list.                         *)
(***************************************************************************)
C4_RankedResponse ==
    (phase = "responded" /\ WroteSpotList) =>
        LET input  == ProviderSpots
            ranked == response.spots
        IN  /\ response.status = 200
            /\ Len(ranked) = Len(input)
            /\ \A i \in 1 .. Len(input) :
                  /\ Cardinality(PositionsOf(ranked, input[i].id)) = 1
                  /\ \A k \in PositionsOf(ranked, input[i].id) :
                        ranked[k] = [id |-> input[i].id,
                                     name |-> input[i].name,
                                     region |-> input[i].region,
                                     forecast |-> input[i].forecast,
                                     suitability |-> ExpectedSuitability(input[i])]
            /\ \A k \in 1 .. Len(ranked) - 1 :
                  ranked[k].suitability >= ranked[k + 1].suitability
            /\ input = <<>> => response = Ok200(<<>>)

\* A response whose ranking moved the provider's last spot to the front.
C4_Witness ==
    /\ phase = "responded"
    /\ WroteSpotList
    /\ response.status = 200
    /\ Len(response.spots) = 3
    /\ response.spots[1].id = ProviderSpots[3].id
    /\ response.spots[1].suitability > response.spots[2].suitability
    /\ response.spots[2].suitability > response.spots[3].suitability

(***************************************************************************)
(* C5: ranking is stable: of two spots with equal suitability, the one     *)
(* that comes first in the provider's list comes first in the response,    *)
(* for every order of the provider's list.                                 *)
(***************************************************************************)
C5_StableRanking ==
    (phase = "responded" /\ WroteSpotList /\ response.status = 200) =>
        LET input  == ProviderSpots
            ranked == response.spots
        IN  \A i, j \in 1 .. Len(input) :
                (i < j /\ ExpectedSuitability(input[i]) = ExpectedSuitability(input[j]))
                  => \A ki \in PositionsOf(ranked, input[i].id) :
                       \A kj \in PositionsOf(ranked, input[j].id) : ki < kj

\* Two tied spots that the sort had to move: a better spot followed them in
\* the provider's list and precedes them in the response, in which they
\* keep their order.
C5_Witness ==
    /\ phase = "responded"
    /\ WroteSpotList
    /\ response.status = 200
    /\ Len(response.spots) = 3
    /\ response.spots[1].id = ProviderSpots[3].id
    /\ response.spots[2].id = ProviderSpots[1].id
    /\ response.spots[3].id = ProviderSpots[2].id
    /\ response.spots[1].suitability > response.spots[2].suitability
    /\ response.spots[2].suitability = response.spots[3].suitability

(***************************************************************************)
(* C11: when the prediction process exits with a non-zero code, or exits   *)
(* with code 0 but its output is not valid JSON or has no spots list, the  *)
(* response has status 500 and an error message and carries no list.       *)
(***************************************************************************)
ProviderFailed ==
    \/ process.code # 0
    \/ ~JSONParse(process.stdout).ok
    \/ ~JSONParse(process.stdout).hasSpots

C11_ProviderFailureIs500 ==
    (phase = "responded" /\ ProviderFailed) =>
        /\ response.status = 500
        /\ response.error # ""
        /\ ~response.hasSpots
        /\ response.spots = <<>>

(***************************************************************************)
(* C12: a request is one request/response exchange: once the handling of   *)
(* the request has ended, whatever the prediction process did (including   *)
(* not starting at all), a response has been sent; and a response is sent  *)
(* only by the close handler, when every chunk the process wrote is in the *)
(* output buffer.                                                          *)
(***************************************************************************)
RequestEnded == phase \in {"responded", "crashed"}

C12_OneResponseAfterClose ==
    /\ RequestEnded => response.status # 0
    /\ response.status # 0 =>
          /\ phase = "responded"
          /\ sent = Len(process.stdout)
          /\ pythonOutput = process.stdout

(***************************************************************************)
(* C13: concurrent requests share no mutable state: at every moment the    *)
(* output buffer of a request holds exactly the chunks its own process has *)
(* written so far, and the response to a request is what the close handler *)
(* computes from that request's own query and its own process's output.    *)
(***************************************************************************)
C13_NoSharedState ==
    \A r \in RequestIds :
        LET req == requests[r]
        IN  /\ req.phase # "idle" =>
                  buffers[BufferOf(r)].pythonOutput =
                      SubSeq(req.process.stdout, 1, req.sent)
            /\ req.phase = "responded" =>
                  req.response = CloseHandler(req.process.code, req.process.stdout,
                                              req.userPreferences, now)
            /\ req.phase # "responded" => req.response = NoResponse

\* Two requests with different queries and different process outputs, both
\* in flight with a part of their output delivered, one of them already
\* having logged to its standard error.
C13_Witness ==
    /\ requests[1].phase = "running"
    /\ requests[2].phase = "running"
    /\ requests[1].userPreferences # requests[2].userPreferences
    /\ requests[1].process.stdout # requests[2].process.stdout
    /\ requests[1].sent = 1
    /\ requests[2].sent = 2
    /\ Len(buffers[BufferOf(1)].pythonError) = 1

InVocabulary(preferences) ==
    /\ preferences.skillLevel \in SkillLevels
    /\ preferences.tidePreference \in TidePreferences
    /\ preferences.boardType \in BoardTypes

C15_UnknownValuesRejected ==
    (phase = "responded" /\ ~InVocabulary(userPreferences)) =>
        /\ response.status >= 400
        /\ response.error # ""
        /\ ~response.hasSpots

(***************************************************************************)
(* C20: a wave-height bound of 0 is used unchanged: with minWaveHeight = 0 *)
(* the range rule does not fire for a forecast below the user's range      *)
(* (none is), and with maxWaveHeight = 0 it fires for every forecast with  *)
(* waveHeight > 0.                                                         *)
(***************************************************************************)
ZeroText == Text(<<"0">>)

C20_ZeroBoundUsed ==
    result.called =>
        LET h       == args.predictions.waveHeight
            zeroMin == [args.preferences EXCEPT !.minWaveHeight = ZeroText]
            zeroMax == [args.preferences EXCEPT !.maxWaveHeight = ZeroText]
        IN  /\ minWaveHeightOf(zeroMin) = 0
            /\ h <= maxWaveHeightOf(zeroMin) =>
                  RangeDeduction(h, minWaveHeightOf(zeroMin),
                                 maxWaveHeightOf(zeroMin)) = 0
            /\ maxWaveHeightOf(zeroMax) = 0
            /\ h > 0 =>
                  RangeDeduction(h, minWaveHeightOf(zeroMax),
                                 maxWaveHeightOf(zeroMax)) = 25

(***************************************************************************)
(* C14: the preferences used to score a request are the user's current     *)
(* preferences: for every getSpotsData(userPreferences) call of a screen,  *)
(* each of the five fields calculateSuitability reads from req.query is    *)
(* the field the UserContext held when the call was made (the two wave     *)
(* heights as the numbers parseFloat makes of them).                       *)
(***************************************************************************)
ReadsValue(query, key, value) ==
    LET read == QueryRead(query, key)
    IN  /\ read.defined
        /\ IF key \in {"minWaveHeight", "maxWaveHeight"}
             THEN parseFloat(Text(read.text)) = Num(value)
             ELSE read.text = value

C14_QueryCarriesPreferences ==
    \A i \in DOMAIN fetches :
        \A key \in PreferenceKeys :
            ReadsValue(fetches[i].query, key, fetches[i].prefs[key])

(***************************************************************************)
(* C16: getSpotsData always resolves to an array, so the screen's spots    *)
(* state is an array in every state: [] after a network error or a         *)
(* response that is not OK, and an array after every OK response.          *)
(***************************************************************************)
C16_AlwaysAnArray ==
    /\ spots.isArray
    /\ \A i \in DOMAIN fetches :
          fetches[i].settled => getSpotsDataResult(fetches[i].outcome).isArray

(***************************************************************************)
(* C17: the spot list follows the latest preferences: once every fetch has *)
(* settled, in whatever order, the spots state holds what the fetch for    *)
(* the most recent preferences resolved to.                                *)
(***************************************************************************)
AllSettled == fetches # <<>> /\ ~FetchInFlight /\ ~effectDue

C17_LatestPreferencesWin ==
    AllSettled =>
        /\ fetches[Len(fetches)].prefs = contextPrefs
        /\ spots = getSpotsDataResult(fetches[Len(fetches)].outcome)

(***************************************************************************)
(* C18: loading is true in every state in which a fetch started by the     *)
(* effect has not settled, so the screen shows the spinner, not the list   *)
(* or the 'no spots' text, while a fetch is in flight.                     *)
(***************************************************************************)
C18_LoadingWhileInFlight ==
    FetchInFlight => (loading /\ Rendered = "spinner")

(***************************************************************************)
(* C19: loading always ends.  When every fetch that was started has        *)
(* settled, successfully or not, loading is false, on the screen and in    *)
(* the chart; it turns true again only when a new fetch starts; and, as    *)
(* every fetch settles, a screen that is loading eventually is not.        *)
(***************************************************************************)
C19_LoadingEnds ==
    /\ []((fetches # <<>> /\ ~FetchInFlight) => ~loading)
    /\ [](chart.phase = "settled" => ~chart.loading)
    /\ [][(~loading /\ loading') => Len(fetches') = Len(fetches) + 1]_vars
    /\ [][(~chart.loading) => ~chart.loading']_vars
    /\ (loading ~> ~loading)
    /\ <>[](~chart.loading)

\* Two fetches have settled, the later one by a rejected fetch(), after a
\* change of the preferences; the chart's fetch failed as well.
C19_Witness ==
    /\ Len(fetches) = 2
    /\ ~FetchInFlight
    /\ fetches[2].outcome.rejected
    /\ fetches[1].outcome.response.status = 500
    /\ fetches[2].prefs # fetches[1].prefs
    /\ ~loading
    /\ chart.phase = "settled"
    /\ ~chart.hasData

(***************************************************************************)
(* C21: after any sequence of profile actions the two wave heights of the  *)
(* preference state are numbers >= 0 and the skill level, tide preference  *)
(* and board type are members of their option lists; and a call of         *)
(* handleNumericChange with a text that is neither empty nor parses to a   *)
(* number >= 0 leaves the preference state as it found it.                 *)
(***************************************************************************)
ParsesToNonNegative(value) ==
    ~parseFloat(value).nan /\ parseFloat(value).val >= 0

C21_ProfileKeepsPreferencesValid ==
    /\ contextPrefs.minWaveHeight \in Nat
    /\ contextPrefs.maxWaveHeight \in Nat
    /\ contextPrefs.skillLevel \in skillOptions
    /\ contextPrefs.tidePreference \in tideOptions
    /\ contextPrefs.boardType \in boardOptions
    /\ DOMAIN contextPrefs = PreferenceKeys
    /\ profileCall.handler = "handleNumericChange" =>
          IF profileCall.value.text = <<>>
            THEN contextPrefs = (profileCall.key :> 0) @@ profileCall.before
          ELSE IF ParsesToNonNegative(profileCall.value)
            THEN contextPrefs =
                   (profileCall.key :> parseFloat(profileCall.value).val)
                     @@ profileCall.before
          ELSE contextPrefs = profileCall.before

\* The field was cleared (0 stored), the skill and the board were changed,
\* and then the text "-1" was typed into the other field: nothing changed.
C21_Witness ==
    /\ profileCall.handler = "handleNumericChange"
    /\ profileCall.key = "maxWaveHeight"
    /\ profileCall.value = Text(<<"-", "1">>)
    /\ contextPrefs = profileCall.before
    /\ contextPrefs.minWaveHeight = 0
    /\ contextPrefs.maxWaveHeight = 30
    /\ contextPrefs.skillLevel = "Advanced"
    /\ contextPrefs.boardType = "Shortboard"

====
